---- MODULE Spec2Model ----
(***************************************************************************)
(* Model of libs/modkit-macros/src/domain_model.rs: the expansion of the   *)
(* #[domain_model] attribute.  A declaration (syn::DeriveInput) is a       *)
(* record; the emitted proc_macro2::TokenStream is the sequence of the     *)
(* items it spells.                                                        *)
(***************************************************************************)
EXTENDS Naturals, Sequences, FiniteSets

VARIABLES pc, input, output

vars == <<pc, input, output>>

(* ------------------------------ bounds -------------------------------- *)

MaxFields == 2

MaxVariants == 2

(* --------------------------- declarations ----------------------------- *)

ConcreteTypes == {"String", "i32"}

FieldNames == <<"id", "name", "reason", "value">>

VariantNames == <<"Active", "Inactive", "Pending", "Closed">>

NoIdent == "_"

NoDefault == "_"

AttrsSet == {<<>>, <<"derive(Clone)">>}

\* syn::TypeParam: ident, bounds, default
TypeParams ==
  {[ident |-> "T", bounds |-> b, default |-> d] :
     b \in {<<>>, <<"Clone">>}, d \in {NoDefault, "String"}}

\* syn::Generics without parameters
NoGenerics == [params |-> <<>>, where_clause |-> <<>>]

\* syn::Generics: params and the optional where clause
GenericsSet ==
  {NoGenerics}
    \cup {[params |-> <<p>>, where_clause |-> w] :
            p \in TypeParams, w \in {<<>>, <<"T: Send">>}}

\* the generics of the enums: none, or one plain type parameter
EnumGenericsSet ==
  {NoGenerics,
   [params |-> <<[ident |-> "T", bounds |-> <<>>, default |-> NoDefault]>>,
    where_clause |-> <<>>]}

ParamIdents(g) == {g.params[i].ident : i \in DOMAIN g.params}

\* the types a field of a declaration with generics g may name
TypesOf(g) == ConcreteTypes \cup ParamIdents(g)

Styles == {"Named", "Unnamed", "Unit"}

\* syn::Fields of one style whose members have the types ts
MkFields(style, ts) ==
  [style |-> style,
   members |-> [i \in DOMAIN ts |->
                  [ident |-> IF style = "Named" THEN FieldNames[i] ELSE NoIdent,
                   ty |-> ts[i]]]]

\* the field lists of at most MaxFields members over the types T
FieldsSet(T) ==
  {MkFields(st, ts) : st \in {"Named", "Unnamed"},
                      ts \in UNION {[1..k -> T] : k \in 0..MaxFields}}
    \cup {MkFields("Unit", <<>>)}

\* syn::Variant list of an enum
MkVariants(fs) == [i \in DOMAIN fs |-> [ident |-> VariantNames[i], fields |-> fs[i]]]

\* syn::DeriveInput
MkDecl(a, g, d) ==
  [attrs |-> a, vis |-> "pub", ident |-> "User", generics |-> g, data |-> d]

NoInput == [ident |-> NoIdent]

(* ----------------------------- the code ------------------------------- *)

\* fields.named.iter().map(|f| &f.ty).collect()
FieldTys(fields) == [i \in DOMAIN fields.members |-> fields.members[i].ty]

RECURSIVE Reverse(_)
Reverse(q) == IF q = <<>> THEN <<>> ELSE Reverse(Tail(q)) \o <<Head(q)>>

\* a slip: the fields are collected back to front
struct_field_types_reversed(fields) == Reverse(FieldTys(fields))

\* match &data.fields { Named, Unnamed, Unit }
struct_field_types(fields) ==
  CASE fields.style = "Named" -> FieldTys(fields)
    [] fields.style = "Unnamed" -> FieldTys(fields)
    [] fields.style = "Unit" -> <<>>

\* the closure of flat_map: one variant's field types
variant_field_types(v) ==
  CASE v.fields.style = "Named" -> FieldTys(v.fields)
    [] v.fields.style = "Unnamed" -> FieldTys(v.fields)
    [] v.fields.style = "Unit" -> <<>>

\* a slip: the variants are visited last to first
RECURSIVE flat_map_variants_reversed(_)
flat_map_variants_reversed(variants) ==
  IF variants = <<>> THEN <<>>
  ELSE flat_map_variants_reversed(Tail(variants))
         \o variant_field_types(Head(variants))

RECURSIVE flat_map(_)
flat_map(variants) ==
  IF variants = <<>> THEN <<>>
  ELSE variant_field_types(Head(variants)) \o flat_map(Tail(variants))

IsUnion(decl) == decl.data.kind = "Union"

RECURSIVE Dedup(_)
Dedup(q) ==
  IF q = <<>> THEN <<>>
  ELSE LET front == Dedup(SubSeq(q, 1, Len(q) - 1))
           last == q[Len(q)]
       IN IF \E i \in DOMAIN front : front[i] = last THEN front
          ELSE Append(front, last)

\* a slip: every type is checked once, however many fields have it
field_types_deduplicated(decl) ==
  Dedup(CASE decl.data.kind = "Struct" -> struct_field_types(decl.data.fields)
          [] decl.data.kind = "Enum" -> flat_map(decl.data.variants))

\* the match on input.data, for the two arms that yield a vector
field_types(decl) ==
  CASE decl.data.kind = "Struct" -> struct_field_types(decl.data.fields)
    [] decl.data.kind = "Enum" -> flat_map(decl.data.variants)

UnionMessage == "domain_model cannot be applied to unions"

\* a slip: the diagnostic is anchored to the macro call, not to the name
to_compile_error_call_site(name, msg) ==
  <<[item |-> "compile_error", message |-> msg, span |-> "call_site"]>>

\* syn::Error::new_spanned(name, msg).to_compile_error()
to_compile_error(name, msg) ==
  <<[item |-> "compile_error", message |-> msg, span |-> name]>>

\* a slip: the where clause is not carried to the impls
split_for_impl_no_where(g) ==
  [impl_generics |-> [i \in DOMAIN g.params |->
                        [g.params[i] EXCEPT !.default = NoDefault]],
   ty_generics |-> [i \in DOMAIN g.params |-> g.params[i].ident],
   where_clause |-> <<>>]

\* input.generics.split_for_impl(): the impl generics leave off the
\* parameter defaults, the type generics are the bare parameter names
split_for_impl(g) ==
  [impl_generics |-> [i \in DOMAIN g.params |->
                        [g.params[i] EXCEPT !.default = NoDefault]],
   ty_generics |-> [i \in DOMAIN g.params |-> g.params[i].ident],
   where_clause |-> g.where_clause]

\* const _: () = { fn __assert_field_is_domain_safe<T: DomainSafe>() {}
\*                 fn __validate_domain_model_fields() { calls } };
validation_block(tys) ==
  <<[item |-> "const",
     assert_fn |-> [ident |-> "__assert_field_is_domain_safe",
                    generics |-> <<"T">>,
                    bound |-> "::modkit::domain::DomainSafe"],
     validate_fn |-> [ident |-> "__validate_domain_model_fields",
                      generics |-> <<>>,
                      calls |-> [i \in DOMAIN tys |->
                                   [callee |-> "__assert_field_is_domain_safe",
                                    ty |-> tys[i]]]]]>>

\* a slip: the block is emitted even when there is nothing to check
field_assertions_always(tys) == validation_block(tys)

\* let field_assertions = if field_types.is_empty() { quote! {} } else { ... }
field_assertions(tys) == IF tys = <<>> THEN <<>> ELSE validation_block(tys)

\* a slip: the declaration is re-emitted without its attributes
to_tokens_without_attrs(decl) ==
  <<[item |-> "DeriveInput",
     decl |-> [attrs |-> <<>>, vis |-> decl.vis, ident |-> decl.ident,
               generics |-> decl.generics, data |-> decl.data]]>>

\* #input : ToTokens for DeriveInput
to_tokens(decl) ==
  <<[item |-> "DeriveInput",
     decl |-> [attrs |-> decl.attrs, vis |-> decl.vis, ident |-> decl.ident,
               generics |-> decl.generics, data |-> decl.data]]>>

\* impl #impl_generics <trait> for #name #ty_generics #where_clause {}
impl_item(trait, name, s) ==
  [item |-> "impl", impl_generics |-> s.impl_generics, trait |-> trait,
   self_ty |-> name, ty_generics |-> s.ty_generics,
   where_clause |-> s.where_clause]

\* a slip: only the safety capability is registered
marker_impls_safe_only(name, s) ==
  <<impl_item("::modkit::domain::DomainSafe", name, s)>>

marker_impls(name, s) ==
  <<impl_item("::modkit::domain::DomainSafe", name, s),
    impl_item("::modkit::domain::DomainModel", name, s)>>

expand_domain_model(decl) ==
  LET name == decl.ident
      s == split_for_impl(decl.generics)
  IN IF IsUnion(decl) THEN to_compile_error(name, UnionMessage)
     ELSE to_tokens(decl) \o marker_impls(name, s)
            \o field_assertions(field_types(decl))

(* ---------------------------- the machine ----------------------------- *)

Init == pc = "idle" /\ input = NoInput /\ output = <<>>

\* the compiler hands the macro a parsed struct
ParseStruct ==
  /\ pc = "idle"
  /\ \E a \in AttrsSet, g \in GenericsSet, st \in Styles :
       \E n \in 0..(IF st = "Unit" THEN 0 ELSE MaxFields) :
         \E ts \in [1..n -> TypesOf(g)] :
           input' = MkDecl(a, g, [kind |-> "Struct", fields |-> MkFields(st, ts)])
  /\ pc' = "parsed"
  /\ output' = <<>>

\* the compiler hands the macro a parsed enum
ParseEnum ==
  /\ pc = "idle"
  /\ \E a \in AttrsSet, g \in EnumGenericsSet, n \in 0..MaxVariants :
       \E fs \in [1..n -> FieldsSet(TypesOf(g))] :
         input' = MkDecl(a, g, [kind |-> "Enum", variants |-> MkVariants(fs)])
  /\ pc' = "parsed"
  /\ output' = <<>>

\* the compiler hands the macro a parsed union
ParseUnion ==
  /\ pc = "idle"
  /\ \E a \in AttrsSet, g \in GenericsSet, n \in 0..MaxFields :
       \E ts \in [1..n -> TypesOf(g)] :
         input' = MkDecl(a, g, [kind |-> "Union", fields |-> MkFields("Named", ts)])
  /\ pc' = "parsed"
  /\ output' = <<>>

\* one call of expand_domain_model(&input)
Expand ==
  /\ pc = "parsed"
  /\ output' = expand_domain_model(input)
  /\ pc' = "expanded"
  /\ UNCHANGED input

\* the invocation ends: nothing outlives it
Finish ==
  /\ pc = "expanded"
  /\ pc' = "idle"
  /\ input' = NoInput
  /\ output' = <<>>

Next == ParseStruct \/ ParseEnum \/ ParseUnion \/ Expand \/ Finish

Spec == Init /\ [][Next]_vars

(* ----------------------------- the claims ----------------------------- *)

Expanded == pc = "expanded"

Kind == input.data.kind

ItemsOf(kind) == SelectSeq(output, LAMBDA x : x.item = kind)

\* the types named by the checks of the emitted validation blocks, in order
Checks ==
  LET blocks == ItemsOf("const")
  IN IF blocks = <<>> THEN <<>>
     ELSE [i \in DOMAIN blocks[1].validate_fn.calls |->
             blocks[1].validate_fn.calls[i].ty]

HasMarker(trait) ==
  \E i \in DOMAIN output :
    /\ output[i].item = "impl"
    /\ output[i].trait = trait
    /\ output[i].self_ty = input.ident

HasBothMarkers ==
  /\ HasMarker("::modkit::domain::DomainSafe")
  /\ HasMarker("::modkit::domain::DomainModel")

\* the number of fields of the first n variants of an enum
RECURSIVE FieldsBefore(_, _)
FieldsBefore(variants, n) ==
  IF n = 0 THEN 0
  ELSE FieldsBefore(variants, n - 1) + Len(variants[n].fields.members)

\* the number of fields a declaration declares
FieldCount(decl) ==
  IF decl.data.kind = "Enum"
  THEN FieldsBefore(decl.data.variants, Len(decl.data.variants))
  ELSE Len(decl.data.fields.members)

Occurrences(q, t) == Cardinality({i \in DOMAIN q : q[i] = t})

RECURSIVE SumOver(_, _)
SumOver(f, n) == IF n = 0 THEN 0 ELSE SumOver(f, n - 1) + f[n]

\* the number of fields of a declaration whose type is t
FieldsOfType(decl, t) ==
  IF decl.data.kind = "Enum"
  THEN SumOver([i \in DOMAIN decl.data.variants |->
                  Occurrences(FieldTys(decl.data.variants[i].fields), t)],
               Len(decl.data.variants))
  ELSE Occurrences(FieldTys(decl.data.fields), t)

\* C1: a union is answered by the one diagnostic "domain_model cannot be
\* applied to unions", anchored to the declaration's name, and by nothing
\* else (no declaration, no registration, no validation block); no other
\* declaration gets a diagnostic.
C1_UnionRejected ==
  Expanded =>
    IF Kind = "Union"
    THEN output = <<[item |-> "compile_error",
                     message |-> "domain_model cannot be applied to unions",
                     span |-> input.ident]>>
    ELSE \A i \in DOMAIN output : output[i].item # "compile_error"

C1_Witness ==
  /\ Expanded
  /\ Kind = "Union"
  /\ Len(input.data.fields.members) >= 1
  /\ Len(output) = 1

\* C2: a struct (named or tuple) with at least one field gets both marker
\* registrations and one validation block whose checks name the field
\* types one for one, in field order.
C2_StructFieldsChecked ==
  (Expanded /\ Kind = "Struct" /\ Len(input.data.fields.members) >= 1) =>
    /\ HasBothMarkers
    /\ Len(ItemsOf("const")) = 1
    /\ Len(Checks) = Len(input.data.fields.members)
    /\ \A i \in DOMAIN Checks : Checks[i] = input.data.fields.members[i].ty

C2_Witness ==
  /\ Expanded
  /\ Kind = "Struct"
  /\ \/ /\ input.data.fields.style = "Unnamed"
        /\ Len(input.data.fields.members) = 1
        /\ Checks = <<"String">>
     \/ /\ input.data.fields.style = "Named"
        /\ Checks = <<"String", "i32">>

\* C3: a declaration without any field gets both marker registrations and
\* no validation block; a validation block is emitted exactly when the
\* declaration has a field.
C3_BlockIffFields ==
  (Expanded /\ Kind # "Union") =>
    /\ FieldCount(input) = 0 => (HasBothMarkers /\ ItemsOf("const") = <<>>)
    /\ (ItemsOf("const") # <<>>) <=> (FieldCount(input) > 0)

C3_Witness ==
  /\ Expanded
  /\ Kind = "Struct"
  /\ input.data.fields.style = "Unit"
  /\ Len(output) = 3

\* C4: for an enum the checks are the variants' field types, variant by
\* variant in declaration order and field by field within a variant:
\* field j of variant v is check number (fields of the variants before v) + j.
C4_EnumFlattening ==
  (Expanded /\ Kind = "Enum") =>
    LET vs == input.data.variants
    IN /\ Len(Checks) = FieldsBefore(vs, Len(vs))
       /\ \A v \in DOMAIN vs :
            \A j \in DOMAIN vs[v].fields.members :
              Checks[FieldsBefore(vs, v - 1) + j] = vs[v].fields.members[j].ty

C4_Witness ==
  /\ Expanded
  /\ Kind = "Enum"
  /\ Len(input.data.variants) = 2
  /\ input.data.variants[1].fields.style = "Named"
  /\ input.data.variants[2].fields.style = "Unnamed"
  /\ Checks = <<"String", "i32">>

\* C5: every declaration that is not a union gets exactly two marker
\* registrations for its name, one DomainSafe and one DomainModel, with or
\* without fields.
C5_TwoMarkers ==
  (Expanded /\ Kind # "Union") =>
    /\ Len(ItemsOf("impl")) = 2
    /\ HasBothMarkers
    /\ \A i \in DOMAIN output :
         output[i].item = "impl" => output[i].self_ty = input.ident

C5_Witness ==
  /\ Expanded
  /\ Kind = "Enum"
  /\ Len(input.data.variants) >= 1
  /\ FieldCount(input) = 0
  /\ Len(ItemsOf("impl")) = 2

\* C6: the emitted code is the declaration as given, then the two marker
\* impls, then the validation block if there is one; the call leaves the
\* input declaration as it was.
C6_DeclarationFirst ==
  /\ [](Expanded /\ Kind # "Union" =>
          /\ Len(output) \in {3, 4}
          /\ output[1] = [item |-> "DeriveInput", decl |-> input]
          /\ output[2].item = "impl"
          /\ output[3].item = "impl"
          /\ Len(output) = 4 => output[4].item = "const")
  /\ [][pc = "parsed" => input' = input]_vars

C6_Witness ==
  /\ Expanded
  /\ Kind = "Struct"
  /\ input.attrs # <<>>
  /\ input.generics.params # <<>>
  /\ Len(output) = 4

\* C7 as amended: both marker impls carry the names and bounds of the
\* generic parameters in order, without their defaults, name the
\* parameters after the type name, and carry the where clause as written.
C7_GenericsCarried ==
  (Expanded /\ Kind # "Union") =>
    \A i \in DOMAIN output :
      output[i].item = "impl" =>
        LET ps == input.generics.params
        IN /\ Len(output[i].impl_generics) = Len(ps)
           /\ \A k \in DOMAIN ps :
                /\ output[i].impl_generics[k].ident = ps[k].ident
                /\ output[i].impl_generics[k].bounds = ps[k].bounds
                /\ output[i].impl_generics[k].default = NoDefault
           /\ output[i].ty_generics = [k \in DOMAIN ps |-> ps[k].ident]
           /\ output[i].where_clause = input.generics.where_clause

C7_Witness ==
  /\ Expanded
  /\ Kind = "Struct"
  /\ Len(input.generics.params) = 1
  /\ input.generics.params[1].bounds # <<>>
  /\ input.generics.params[1].default # NoDefault
  /\ input.generics.where_clause # <<>>
  /\ Len(ItemsOf("impl")) = 2

\* C7 as claimed: the impls carry the generic parameters as declared,
\* nothing dropped.
C7_GenericsVerbatim ==
  (Expanded /\ Kind # "Union") =>
    \A i \in DOMAIN output :
      output[i].item = "impl" =>
        /\ output[i].impl_generics = input.generics.params
        /\ output[i].where_clause = input.generics.where_clause

\* the type names a function body can use: the items of the enclosing
\* module and the function's own generic parameters
NamesInScope(fn) ==
  ConcreteTypes \cup {input.ident} \cup {fn.generics[i] : i \in DOMAIN fn.generics}

\* C8: every type named by a check of the validation block resolves where
\* the block is emitted, also when it is a parameter of the declaration.
C8_ChecksResolve ==
  (Expanded /\ Kind # "Union") =>
    \A b \in DOMAIN output :
      output[b].item = "const" =>
        \A c \in DOMAIN output[b].validate_fn.calls :
          output[b].validate_fn.calls[c].ty \in NamesInScope(output[b].validate_fn)

\* C10: there are as many checks as fields, and every type is checked as
\* many times as there are fields of that type.
C10_NoDeduplication ==
  (Expanded /\ Kind # "Union") =>
    /\ Len(Checks) = FieldCount(input)
    /\ \A t \in TypesOf(input.generics) :
         Occurrences(Checks, t) = FieldsOfType(input, t)

C10_Witness ==
  /\ Expanded
  /\ Kind = "Struct"
  /\ input.data.fields.style = "Named"
  /\ Checks = <<"String", "String">>

====
